---- MODULE Spec2Model ----
(***************************************************************************)
(* Model of the credit card recommendation core of src/main.py             *)
(* (class CreditCardChatbot): the catalog loader, the eligibility filter,   *)
(* the preference scorer and the recommendation session, as state machines *)
(* over the chatbot's fields.                                              *)
(*                                                                         *)
(* Python values are represented as follows.                               *)
(*   str            a TLA+ string                                          *)
(*   list           a sequence                                             *)
(*   optional value <<>> for an absent key or None, <<v>> for the value v  *)
(*   dict (card)    a record that holds every key the code reads           *)
(***************************************************************************)
EXTENDS Integers, Sequences, FiniteSets, TLC

VARIABLES
  cards,            \* self.cards: the loaded catalog
  user_prefs,       \* self.user_prefs
  session_state,    \* self.session_state
  eligible_cards,   \* the list last returned by filter_cards_by_eligibility
                    \* (the argument of score_cards)
  scored_cards,     \* score_cards' local list of (card, score), after its sort
  ranked_cards,     \* the list last returned by score_cards
  prev_ranked,      \* the list returned by the score_cards call before that
  calls,            \* how many times the operation under study has run
  pc,               \* position of the driver: "start", then the name of the
                    \* outcome of the last operation
  raw_cards,        \* the content of the file at json_path
  log,              \* the records the logging module has emitted
  result,           \* the card the last operation returned, None for none
  alternatives,     \* suggest_alternative's local list of candidate cards
  rejected,         \* the cards suggest_alternative has replaced so far
  llm_runs,         \* how many times an LLM chain has been run
  llm_answer,       \* what the last run of an LLM chain gave
  loop_card,        \* the recommended_card argument of the conversation loop
  fetched,          \* the requests _fetch_web_content has made, each with
                    \* the current card of the session at that time
  suggestions       \* how many calls of suggest_alternative returned a card

\* the variables of the loader and of the session
aux == <<raw_cards, log, result, alternatives, rejected, llm_runs, llm_answer,
         loop_card, fetched, suggestions>>

vars == <<cards, user_prefs, session_state, eligible_cards, scored_cards,
          ranked_cards, prev_ranked, calls, pc, raw_cards, log, result,
          alternatives, rejected, llm_runs, llm_answer, loop_card, fetched,
          suggestions>>

(***************************************************************************)
(* Bounds of the model.                                                    *)
(***************************************************************************)
MaxCatalog == 3
MaxExcluded == 2
MaxEligible == 3
MaxCalls == 2
MaxRaw == 3
MaxLLMCalls == 4

(***************************************************************************)
(* Python strings: str.lower, str.upper, the substring test `k in t`,      *)
(* str.join.                                                               *)
(***************************************************************************)
UpperChars == "ABCDEFGHIJKLMNOPQRSTUVWXYZ"
LowerChars == "abcdefghijklmnopqrstuvwxyz"

CharAt(t, i) == SubSeq(t, i, i)

\* the letters of `from`, each mapped to the letter of `to` at its place
CaseMap(from, to) ==
  [c \in {CharAt(from, i) : i \in 1..Len(from)} |->
     CharAt(to, CHOOSE i \in 1..Len(from) : CharAt(from, i) = c)]

ToLower == CaseMap(UpperChars, LowerChars)
ToUpper == CaseMap(LowerChars, UpperChars)

LowerChar(c) == IF c \in DOMAIN ToLower THEN ToLower[c] ELSE c

UpperChar(c) == IF c \in DOMAIN ToUpper THEN ToUpper[c] ELSE c

RECURSIVE lower(_)
lower(t) ==
  IF t = "" THEN "" ELSE LowerChar(CharAt(t, 1)) \o lower(SubSeq(t, 2, Len(t)))

RECURSIVE upper(_)
upper(t) ==
  IF t = "" THEN "" ELSE UpperChar(CharAt(t, 1)) \o upper(SubSeq(t, 2, Len(t)))

\* k in t, for strings
InStr(k, t) ==
  \E i \in 1..(Len(t) - Len(k) + 1) : SubSeq(t, i, i + Len(k) - 1) = k

\* x in l, for a list l
InList(x, l) == \E i \in 1..Len(l) : l[i] = x

\* sep.join(l)
RECURSIVE join(_, _)
join(sep, l) ==
  IF l = <<>> THEN ""
  ELSE IF Len(l) = 1 THEN l[1]
  ELSE l[1] \o sep \o join(sep, Tail(l))

(***************************************************************************)
(* Optional values and Python truthiness.                                  *)
(***************************************************************************)
None == <<>>
Some(v) == <<v>>

\* bool(x) for an optional integer: None and 0 are falsy
TruthyInt(o) == o # None /\ o[1] # 0

\* bool(x) for an optional string: None and '' are falsy
TruthyStr(o) == o # None /\ o[1] # ""

(***************************************************************************)
(* _load_cards (src/main.py 41-60) and the logging it does.                *)
(***************************************************************************)

\* the file at json_path: unreadable, or a JSON list of records
RawFile(records) == [readable |-> TRUE, records |-> records]
Unreadable == [readable |-> FALSE, records |-> <<>>]

\* the levels of the logging module, and the one of line 14
LogLevel == [DEBUG |-> 10, INFO |-> 20, WARNING |-> 30, ERROR |-> 40]
ConfiguredLevel == "ERROR"

\* logger.info / logger.error: a record below the configured level is dropped
emit(lg, level, msg) ==
  IF LogLevel[level] >= LogLevel[ConfiguredLevel]
  THEN Append(lg, [level |-> level, msg |-> msg])
  ELSE lg

\* lines 50-53
valid_record(card) ==
  /\ TruthyStr(card.name)
  /\ TruthyStr(card.Institution)
  /\ card.Institution # Some("None")
  /\ card.Institution # None

\* lines 43-57 and 58-60: the list _load_cards returns
load_cards(raw) ==
  IF raw.readable THEN SelectSeq(raw.records, valid_record) ELSE <<>>

\* lines 56 and 59: the log after the call
load_log(lg, raw) ==
  IF raw.readable
  THEN emit(lg, "INFO", [text |-> "Loaded valid cards from total cards",
                         valid |-> Len(load_cards(raw)),
                         total |-> Len(raw.records)])
  ELSE emit(lg, "ERROR", [text |-> "Error loading cards"])

\* no chain has been run yet
NoAnswer == [kind |-> "none", name |-> ""]

\* the session has not begun: nothing is returned, rejected, asked of the
\* LLM or fetched
Idle ==
  /\ result = None
  /\ alternatives = <<>>
  /\ rejected = {}
  /\ llm_runs = 0
  /\ llm_answer = NoAnswer
  /\ loop_card = None
  /\ fetched = {}
  /\ suggestions = 0

\* the loader and the session have not run: the catalog is the content of
\* the file, nothing is logged
Loaded(cs) ==
  /\ raw_cards = RawFile(cs)
  /\ log = <<>>
  /\ Idle

(***************************************************************************)
(* filter_cards_by_eligibility (src/main.py 223-261).                      *)
(***************************************************************************)

\* is_excluded with the institution compared to the first excluded one only
is_excluded_first_only(card, state) ==
  /\ state.excluded_institutions # <<>>
  /\ card.Institution = state.excluded_institutions[1]

\* line 232: card.get('Institution') in self.session_state['excluded_institutions']
is_excluded(card, state) == InList(card.Institution, state.excluded_institutions)

\* lines 236-244
income_eligible(card, prefs) ==
  LET income_req == card.eligibility_income_min
      user_income == prefs.income
      user_employment == prefs.employment
  IN  IF user_employment = "salaried" /\ TruthyInt(income_req.salaried)
      THEN user_income >= income_req.salaried[1]
      ELSE IF user_employment = "self-employed" /\ TruthyInt(income_req.self_employed)
      THEN user_income >= income_req.self_employed[1]
      ELSE IF TruthyInt(income_req.Any)
      THEN user_income >= income_req.Any[1]
      ELSE TRUE

\* lines 247-249
credit_eligible(card, prefs) ==
  IF TruthyInt(prefs.credit_score) /\ TruthyInt(card.minimum_credit_score)
  THEN prefs.credit_score[1] >= card.minimum_credit_score[1]
  ELSE TRUE

\* bank_eligible without the branch for a user with no preferred bank
bank_eligible_no_elif(card, prefs) ==
  IF card.is_bank_customer_only /\ TruthyStr(prefs.preferred_bank)
  THEN InStr(upper(prefs.preferred_bank[1]), upper(card.Institution))
  ELSE TRUE

\* lines 252-256
bank_eligible(card, prefs) ==
  IF card.is_bank_customer_only /\ TruthyStr(prefs.preferred_bank)
  THEN InStr(upper(prefs.preferred_bank[1]), upper(card.Institution))
  ELSE IF card.is_bank_customer_only /\ ~TruthyStr(prefs.preferred_bank)
  THEN FALSE
  ELSE TRUE

\* the body of the loop, lines 231-259: whether the card is appended
card_appended(card, prefs, state) ==
  IF is_excluded(card, state)
  THEN FALSE
  ELSE income_eligible(card, prefs) /\ credit_eligible(card, prefs)
       /\ bank_eligible(card, prefs)

\* the loop of line 230, from card i on, with the list built so far
RECURSIVE filter_loop(_, _, _, _, _)
filter_loop(cs, prefs, state, i, acc) ==
  IF i > Len(cs) THEN acc
  ELSE filter_loop(cs, prefs, state, i + 1,
                   IF card_appended(cs[i], prefs, state)
                   THEN Append(acc, cs[i]) ELSE acc)

filter_cards_by_eligibility(cs, prefs, state) ==
  filter_loop(cs, prefs, state, 1, <<>>)

(***************************************************************************)
(* score_cards (src/main.py 263-410).                                      *)
(***************************************************************************)

\* lines 291-295 and 297-301: a list as it is, the list under the wrapper
\* dict's key, [] for anything else
unwrap(data) == IF data.shape \in {"list", "dict"} THEN data.items ELSE <<>>

\* repr of a list of strings: ['a', 'b']
ReprList(l) ==
  "[" \o join(", ", [i \in 1..Len(l) |-> "'" \o l[i] \o "'"]) \o "]"

\* str(x) of a reward or fee descriptor: a string is itself, a dict prints
\* its keys and values
Str(x) ==
  IF x.kind = "str" THEN x.text
  ELSE "{'type': '" \o x.type \o "', 'details': " \o ReprList(x.details) \o "}"

\* any(k in str(x).lower() for x in items), for one of the keywords
any_has(items, keywords) ==
  \E i \in 1..Len(items) : \E k \in keywords : InStr(k, lower(Str(items[i])))

\* sum(1 for hit in hits if hit), for a list of booleans
RECURSIVE count_hits(_)
count_hits(hits) ==
  IF hits = <<>> THEN 0
  ELSE (IF Head(hits) THEN 1 ELSE 0) + count_hits(Tail(hits))

\* lines 271-272
lower_all(l) == [i \in 1..Len(l) |-> lower(l[i])]

\* line 275
exact_matches(card_badges, user_categories) ==
  count_hits([i \in 1..Len(user_categories) |->
                InList(user_categories[i], card_badges)])

\* lines 279-284
partial_matches(card_badges, user_categories) ==
  count_hits([i \in 1..Len(user_categories) |->
                \E j \in 1..Len(card_badges) :
                  \/ InStr(user_categories[i], card_badges[j])
                  \/ InStr(card_badges[j], user_categories[i])])

\* category_score with the exact matches counted again as partial ones
category_score_double_count(card, prefs) ==
  LET card_badges == lower_all(card.badge)
      user_categories == lower_all(prefs.categories)
      exact == exact_matches(card_badges, user_categories)
      partial == partial_matches(card_badges, user_categories)
  IN  exact * 15 + partial * 8

\* lines 270-285
category_score(card, prefs) ==
  LET card_badges == lower_all(card.badge)
      user_categories == lower_all(prefs.categories)
      exact == exact_matches(card_badges, user_categories)
      partial == partial_matches(card_badges, user_categories)
  IN  exact * 15 + (partial - exact) * 8

\* lines 308-317: whether some fee dict of the given type has a waiver keyword
fee_low(fee_breakdown, type, keywords) ==
  \E i \in 1..Len(fee_breakdown) :
    /\ fee_breakdown[i].kind = "dict"
    /\ fee_breakdown[i].type = type
    /\ LET fee_details == lower(join(" ", fee_breakdown[i].details))
       IN  \E k \in keywords : InStr(k, fee_details)

\* fee_score with the points of the annual-only and the joining-only case
\* exchanged
fee_score_swapped(card, prefs) ==
  LET fee_breakdown == unwrap(card.fee_breakdown)
      joining_fee_low ==
        fee_low(fee_breakdown, "joining_fee", {"nil", "waived", "0", "free"})
      annual_fee_low ==
        fee_low(fee_breakdown, "annual_fee",
                {"nil", "waived", "0", "free", "lifetime"})
  IN  IF "low fees" \in prefs.preferences \/ "no annual fee" \in prefs.preferences
      THEN IF joining_fee_low /\ annual_fee_low THEN 20
           ELSE IF annual_fee_low THEN 10
           ELSE IF joining_fee_low THEN 15
           ELSE 0
      ELSE 0

\* lines 303-324
fee_score(card, prefs) ==
  LET fee_breakdown == unwrap(card.fee_breakdown)
      joining_fee_low ==
        fee_low(fee_breakdown, "joining_fee", {"nil", "waived", "0", "free"})
      annual_fee_low ==
        fee_low(fee_breakdown, "annual_fee",
                {"nil", "waived", "0", "free", "lifetime"})
  IN  IF "low fees" \in prefs.preferences \/ "no annual fee" \in prefs.preferences
      THEN IF joining_fee_low /\ annual_fee_low THEN 20
           ELSE IF annual_fee_low THEN 15
           ELSE IF joining_fee_low THEN 10
           ELSE 0
      ELSE 0

\* one reward-keyword rule of lines 326-390
reward_rule(card, prefs, pref, keywords, points) ==
  IF pref \in prefs.preferences /\ any_has(unwrap(card.rewards), keywords)
  THEN points ELSE 0

\* lines 332-339
fuel_score(card, prefs) ==
  IF /\ "fuel surcharge waiver" \in prefs.preferences
     /\ \/ any_has(unwrap(card.rewards), {"fuel"})
        \/ any_has(unwrap(card.fee_breakdown), {"fuel"})
  THEN 15 ELSE 0

\* rewards_score with the rules chained by elif: only the first rule that
\* fires contributes
rewards_score_first_match(card, prefs) ==
  LET points ==
        << reward_rule(card, prefs, "lounge access", {"lounge"}, 18),
           reward_rule(card, prefs, "cashback", {"cashback"}, 18),
           reward_rule(card, prefs, "travel rewards",
                       {"travel", "miles", "points", "air"}, 16),
           reward_rule(card, prefs, "movie benefits", {"movie", "pvr"}, 12),
           reward_rule(card, prefs, "dining discounts",
                       {"dining", "restaurant"}, 12),
           reward_rule(card, prefs, "railway benefits", {"railway", "irctc"}, 12),
           reward_rule(card, prefs, "welcome benefits", {"welcome"}, 8),
           reward_rule(card, prefs, "milestone rewards", {"milestone"}, 10),
           reward_rule(card, prefs, "insurance coverage",
                       {"insurance", "cover"}, 8) >>
      fired == { i \in 1..Len(points) : points[i] > 0 }
  IN  IF fired = {} THEN 0
      ELSE points[CHOOSE i \in fired : \A j \in fired : i <= j]

\* lines 326-330 and 341-390
rewards_score(card, prefs) ==
    reward_rule(card, prefs, "lounge access", {"lounge"}, 18)
  + reward_rule(card, prefs, "cashback", {"cashback"}, 18)
  + reward_rule(card, prefs, "travel rewards",
                {"travel", "miles", "points", "air"}, 16)
  + reward_rule(card, prefs, "movie benefits", {"movie", "pvr"}, 12)
  + reward_rule(card, prefs, "dining discounts", {"dining", "restaurant"}, 12)
  + reward_rule(card, prefs, "railway benefits", {"railway", "irctc"}, 12)
  + reward_rule(card, prefs, "welcome benefits", {"welcome"}, 8)
  + reward_rule(card, prefs, "milestone rewards", {"milestone"}, 10)
  + reward_rule(card, prefs, "insurance coverage", {"insurance", "cover"}, 8)

\* lines 392-395
bank_bonus(card, prefs) ==
  IF /\ TruthyStr(prefs.preferred_bank)
     /\ InStr(upper(prefs.preferred_bank[1]), upper(card.Institution))
  THEN 25 ELSE 0

\* income_bonus with the second tier tested by an if of its own instead of
\* the elif of line 401
income_bonus_both_tiers(card, prefs) ==
  LET card_badges == lower_all(card.badge)
      user_income == prefs.income
  IN  ( IF /\ user_income >= 1000000
           /\ \/ InList("premium", card_badges)
              \/ InStr("signature", lower(card.name))
        THEN 10 ELSE 0 )
    + ( IF /\ user_income >= 500000
           /\ \E badge \in {"lifestyle", "rewards", "travel"} :
                InList(badge, card_badges)
        THEN 5 ELSE 0 )

\* lines 397-404
income_bonus(card, prefs) ==
  LET card_badges == lower_all(card.badge)
      user_income == prefs.income
  IN  IF user_income >= 1000000
      THEN IF InList("premium", card_badges) \/ InStr("signature", lower(card.name))
           THEN 10 ELSE 0
      ELSE IF user_income >= 500000
      THEN IF \E badge \in {"lifestyle", "rewards", "travel"} :
                InList(badge, card_badges)
           THEN 5 ELSE 0
      ELSE 0

\* the score of one card: the loop body, lines 268-404
card_score(card, prefs) ==
    category_score(card, prefs) + fee_score(card, prefs)
  + fuel_score(card, prefs) + rewards_score(card, prefs)
  + bank_bonus(card, prefs) + income_bonus(card, prefs)

\* line 406, for every card of the list: the (card, score) tuples
score_all(eligible, prefs) ==
  [i \in 1..Len(eligible) |->
     [card |-> eligible[i], score |-> card_score(eligible[i], prefs)]]

\* insert_pos of a sort that puts x ahead of the elements of equal score
insert_pos_unstable(sorted, x) ==
  Cardinality({k \in 1..Len(sorted) : sorted[k].score > x.score})

\* where list.sort(key=score, reverse=True) puts x in a list sorted so far:
\* behind every element whose score is not smaller
insert_pos(sorted, x) ==
  Cardinality({k \in 1..Len(sorted) : sorted[k].score >= x.score})

\* line 409: scored_cards.sort(key=lambda x: x[1], reverse=True), a stable sort
RECURSIVE sort_by_score(_)
sort_by_score(scored) ==
  IF scored = <<>> THEN <<>>
  ELSE LET n == Len(scored)
           front == sort_by_score(SubSeq(scored, 1, n - 1))
           k == insert_pos(front, scored[n])
       IN  SubSeq(front, 1, k) \o <<scored[n]>> \o SubSeq(front, k + 1, n - 1)

\* lines 265-409: the sorted list of (card, score)
score_and_sort(eligible, prefs) == sort_by_score(score_all(eligible, prefs))

\* score_cards with scored_cards kept from the call before instead of being
\* set to [] (line 265)
score_cards_accumulating(eligible, prefs) ==
  LET sorted == sort_by_score(score_all(ranked_cards \o eligible, prefs))
  IN  [i \in 1..Len(sorted) |-> sorted[i].card]

\* line 410
score_cards(eligible, prefs) ==
  LET sorted == score_and_sort(eligible, prefs)
  IN  [i \in 1..Len(sorted) |-> sorted[i].card]

(***************************************************************************)
(* Cards and preferences the specifications draw their inputs from.        *)
(***************************************************************************)
NoIncomeReq == [salaried |-> None, self_employed |-> None, Any |-> None]

\* a card dict: the keys the filter and the scorer read
Card(name, inst, badge, inc, mcs, bco, rewards, fees) ==
  [name |-> name, Institution |-> inst, badge |-> badge,
   eligibility_income_min |-> inc, minimum_credit_score |-> mcs,
   is_bank_customer_only |-> bco, rewards |-> rewards, fee_breakdown |-> fees]

\* a rewards / fee_breakdown value: a list, a wrapper dict, or anything else
AsList(items) == [shape |-> "list", items |-> items]
AsDict(items) == [shape |-> "dict", items |-> items]
Absent == [shape |-> "list", items |-> <<>>]

Institutions == {"HDFC Bank", "SBI Card"}

\* cards that differ in every field the filter reads
GateCards ==
  { Card("Card", inst, <<>>,
         [salaried |-> s, self_employed |-> se, Any |-> a], mcs, bco,
         Absent, Absent) :
      inst \in Institutions,
      s \in {None, Some(0), Some(300000)},
      se \in {None, Some(500000)},
      a \in {None, Some(500000)},
      mcs \in {None, Some(700)},
      bco \in BOOLEAN }

\* a small pool for catalogs of several cards
PoolCards ==
  { Card("Regalia", "HDFC Bank", <<>>,
         [salaried |-> Some(300000), self_employed |-> None, Any |-> None],
         None, FALSE, Absent, Absent),
    Card("SimplySave", "SBI Card", <<>>, NoIncomeReq, Some(700), FALSE,
         Absent, Absent),
    Card("Millennia", "HDFC Bank", <<>>, NoIncomeReq, None, TRUE,
         Absent, Absent) }

SeqsUpTo(S, n) == UNION { [1..k -> S] : k \in 0..n }

Catalogs == { <<c>> : c \in GateCards } \cup SeqsUpTo(PoolCards, MaxCatalog)

FilterPrefs ==
  { [employment |-> e, income |-> inc, categories |-> <<"Travel">>,
     preferences |-> {"cashback"}, preferred_bank |-> pb, credit_score |-> cs] :
      e \in {"salaried", "self-employed"},
      inc \in {100000, 300000, 500000},
      pb \in {None, Some("hdfc"), Some("Axis")},
      cs \in {None, Some(0), Some(650), Some(700)} }

NewSession(excluded) ==
  [recommended_cards |-> <<>>, current_card |-> None,
   excluded_institutions |-> excluded, llm_calls_count |-> 0]

(***************************************************************************)
(* The filter specification: the inputs are drawn by InitFilter and        *)
(* FilterCards applies filter_cards_by_eligibility to them.                *)
(***************************************************************************)
InitFilter ==
  /\ cards \in Catalogs
  /\ user_prefs \in FilterPrefs
  /\ session_state \in { NewSession(x) : x \in SeqsUpTo(Institutions, MaxExcluded) }
  /\ eligible_cards = <<>>
  /\ scored_cards = <<>>
  /\ ranked_cards = <<>>
  /\ prev_ranked = <<>>
  /\ calls = 0
  /\ pc = "start"
  /\ Loaded(cards)

FilterCards ==
  /\ calls < MaxCalls
  /\ eligible_cards' = filter_cards_by_eligibility(cards, user_prefs, session_state)
  /\ calls' = calls + 1
  /\ pc' = "filtered"
  /\ UNCHANGED <<cards, user_prefs, session_state, scored_cards, ranked_cards,
                 prev_ranked>>
  /\ UNCHANGED aux

NextFilter == FilterCards

SpecFilter == InitFilter /\ [][NextFilter]_vars

(***************************************************************************)
(* The eligibility conditions as the specification states them (4.2).      *)
(***************************************************************************)

\* the one income threshold chosen by precedence; None when none applies
ClaimThreshold(card, prefs) ==
  LET req == card.eligibility_income_min
  IN  IF prefs.employment = "salaried" /\ req.salaried # None THEN req.salaried
      ELSE IF prefs.employment = "self-employed" /\ req.self_employed # None
      THEN req.self_employed
      ELSE IF req.Any # None THEN req.Any
      ELSE None

ClaimIncomePass(card, prefs) ==
  LET t == ClaimThreshold(card, prefs)
  IN  t = None \/ prefs.income >= t[1]

ClaimCreditPass(card, prefs) ==
  IF prefs.credit_score # None /\ card.minimum_credit_score # None
  THEN prefs.credit_score[1] >= card.minimum_credit_score[1]
  ELSE TRUE

\* the bank name is a case-insensitive substring of the institution name
ClaimBankMatch(prefs, card) ==
  /\ prefs.preferred_bank # None
  /\ InStr(lower(prefs.preferred_bank[1]), lower(card.Institution))

ClaimBankPass(card, prefs) ==
  card.is_bank_customer_only => ClaimBankMatch(prefs, card)

ClaimNotExcluded(card, state) ==
  \A i \in 1..Len(state.excluded_institutions) :
    state.excluded_institutions[i] # card.Institution

ClaimPasses(card, prefs, state) ==
  /\ ClaimNotExcluded(card, state)
  /\ ClaimIncomePass(card, prefs)
  /\ ClaimCreditPass(card, prefs)
  /\ ClaimBankPass(card, prefs)

Filtered == pc = "filtered"

(***************************************************************************)
(* Claims about the eligibility filter, checked under SpecFilter.          *)
(***************************************************************************)

\* C1: the filter never returns a card whose institution is in
\* excluded_institutions, in the first pass and in every later one.
C1_NoExcludedInstitution ==
  Filtered =>
    \A i \in 1..Len(eligible_cards) :
      \A j \in 1..Len(session_state.excluded_institutions) :
        eligible_cards[i].Institution # session_state.excluded_institutions[j]

\* a pass over a catalog that holds a card of an excluded institution and
\* returns other cards
C1_Witness ==
  /\ Filtered
  /\ Len(session_state.excluded_institutions) = 2
  /\ \E i \in 1..Len(cards) :
       cards[i].Institution = session_state.excluded_institutions[1]
  /\ eligible_cards # <<>>

\* C2: the income check applies exactly one threshold, chosen by precedence
\* (the employment-specific minimum if the card specifies it, else 'Any',
\* else none), and passes iff income >= that threshold.
C2_IncomePrecedence ==
  Filtered =>
    \A i \in 1..Len(cards) :
      income_eligible(cards[i], user_prefs) = ClaimIncomePass(cards[i], user_prefs)

\* C3: a card that passes the other gates is returned iff the income is at or
\* above the applicable threshold (equal is eligible), and left out below it.
C3_IncomeBoundary ==
  Filtered =>
    \A i \in 1..Len(cards) :
      ( /\ ClaimNotExcluded(cards[i], session_state)
        /\ ClaimCreditPass(cards[i], user_prefs)
        /\ credit_eligible(cards[i], user_prefs)
        /\ ClaimBankPass(cards[i], user_prefs) )
      => ( InList(cards[i], eligible_cards)
             <=> ClaimIncomePass(cards[i], user_prefs) )

\* C4: when the user's credit score and the card's minimum are both present,
\* whatever their values, the credit check passes iff score >= minimum; when
\* either is absent it passes.
C4_CreditCheck ==
  Filtered =>
    \A i \in 1..Len(cards) :
      credit_eligible(cards[i], user_prefs) = ClaimCreditPass(cards[i], user_prefs)

\* C5: a bank-customer-only card is returned only if a preferred bank is set
\* and is a case-insensitive substring of the institution; with no preferred
\* bank no such card is returned.
C5_BankCustomerOnly ==
  Filtered =>
    \A i \in 1..Len(eligible_cards) :
      eligible_cards[i].is_bank_customer_only
        => ClaimBankMatch(user_prefs, eligible_cards[i])

\* a bank-customer-only card is returned for a preferred bank written in
\* another case than the institution
C5_Witness ==
  /\ Filtered
  /\ \E i \in 1..Len(eligible_cards) :
       /\ eligible_cards[i].is_bank_customer_only
       /\ ~InStr(user_prefs.preferred_bank[1], eligible_cards[i].Institution)

\* C6: the result is the order-preserving subsequence of the catalog made of
\* exactly the cards that pass all four conditions.
C6_Subsequence ==
  Filtered =>
    LET Test(c) == ClaimPasses(c, user_prefs, session_state)
    IN  eligible_cards = SelectSeq(cards, Test)

(***************************************************************************)
(* The scorer specifications: the inputs (the eligible list and the        *)
(* preferences) are drawn by the initial predicate and ScoreCards applies  *)
(* score_cards to them, as often as MaxCalls allows.                       *)
(***************************************************************************)
RewardText(t) == [kind |-> "str", text |-> t]
Descriptor(type, details) == [kind |-> "dict", type |-> type, details |-> details]

ScorePrefs(categories, preferences, bank, income) ==
  [employment |-> "salaried", income |-> income, categories |-> categories,
   preferences |-> preferences, preferred_bank |-> bank, credit_score |-> None]

ScoreCards ==
  /\ calls < MaxCalls
  /\ scored_cards' = score_and_sort(eligible_cards, user_prefs)
  /\ ranked_cards' = score_cards(eligible_cards, user_prefs)
  /\ prev_ranked' = ranked_cards
  /\ calls' = calls + 1
  /\ pc' = "scored"
  /\ UNCHANGED <<cards, user_prefs, session_state, eligible_cards>>
  /\ UNCHANGED aux

NextScore == ScoreCards

\* what every scorer specification starts from, given the list and the prefs
ScoreStart(eligible, prefs) ==
  /\ cards = eligible
  /\ eligible_cards = eligible
  /\ user_prefs = prefs
  /\ session_state = NewSession(<<>>)
  /\ scored_cards = <<>>
  /\ ranked_cards = <<>>
  /\ prev_ranked = <<>>
  /\ calls = 0
  /\ pc = "start"
  /\ Loaded(cards)

Scored == pc = "scored"

\* --- lists of several cards, with scores that differ and scores that tie
RankCards ==
  { Card("Regalia", "HDFC Bank", <<"Travel", "Premium">>, NoIncomeReq, None,
         FALSE, AsList(<<RewardText("Complimentary Lounge access")>>),
         AsList(<<Descriptor("annual_fee", <<"₹2500">>)>>)),
    Card("SimplyCLICK", "SBI Card", <<"Shopping">>, NoIncomeReq, None, FALSE,
         AsDict(<<Descriptor("cashback", <<"5% Cashback online">>)>>),
         AsList(<<Descriptor("joining_fee", <<"Nil">>),
                  Descriptor("annual_fee", <<"Nil">>)>>)),
    Card("Neo", "Axis Bank", <<>>, NoIncomeReq, None, FALSE, Absent, Absent),
    Card("Unnati", "SBI Card", <<>>, NoIncomeReq, None, FALSE, Absent, Absent) }

RankPrefs ==
  { ScorePrefs(c, p, b, inc) :
      c \in {<<"Travel">>, <<"Shopping", "Fuel">>},
      p \in (SUBSET {"lounge access", "cashback", "low fees"}) \ {{}},
      b \in {None, Some("sbi")},
      inc \in {0, 1200000} }

InitScore ==
  \E eligible \in SeqsUpTo(RankCards, MaxEligible) : \E prefs \in RankPrefs :
    ScoreStart(eligible, prefs)

SpecScore == InitScore /\ [][NextScore]_vars

\* --- one card, every badge list against every category list; no other rule
\* of the scorer can fire
BadgeNames == {"Travel", "Fuel", "LOUNGE", "Travel Rewards", "SHOPPING"}
CategoryNames == {"Travel", "Shopping", "Fuel", "Lounge Access"}
MaxBadges == 2
MaxCategories == 2

InitCategory ==
  \E badge \in SeqsUpTo(BadgeNames, MaxBadges) :
  \E categories \in SeqsUpTo(CategoryNames, MaxCategories) \ {<<>>} :
    ScoreStart(<<Card("Card", "HDFC Bank", badge, NoIncomeReq, None, FALSE,
                      Absent, Absent)>>,
               ScorePrefs(categories, {"cashback"}, None, 0))

SpecCategory == InitCategory /\ [][NextScore]_vars

\* --- one card, every joining fee against every annual fee; no other rule of
\* the scorer can fire
JoiningFees ==
  { <<>>, <<Descriptor("joining_fee", <<"Nil">>)>>,
    <<Descriptor("joining_fee", <<"₹500">>)>>,
    <<Descriptor("joining_fee", <<"₹499">>)>>,
    <<Descriptor("joining_fee", <<"₹499", "Waived on first spend">>)>> }

AnnualFees ==
  { <<>>, <<Descriptor("annual_fee", <<"Nil">>)>>,
    <<Descriptor("annual_fee", <<"₹999">>)>>,
    <<Descriptor("annual_fee", <<"Lifetime Free">>)>>,
    <<Descriptor("annual_fee", <<"₹1000">>)>> }

FeePreferences ==
  { {"low fees"}, {"no annual fee"}, {"low fees", "no annual fee"}, {"cashback"} }

InitFee ==
  \E j \in JoiningFees : \E a \in AnnualFees :
  \E fees \in {AsList(j \o a), AsDict(j \o a)} : \E p \in FeePreferences :
    ScoreStart(<<Card("Card", "HDFC Bank", <<>>, NoIncomeReq, None, FALSE,
                      Absent, fees)>>,
               ScorePrefs(<<"Travel">>, p, None, 0))

SpecFee == InitFee /\ [][NextScore]_vars

\* --- one card, every badge list and name against every income; no other
\* rule of the scorer can fire
TierBadges == {"Premium", "Lifestyle", "REWARDS", "Travel", "Fuel"}
TierNames == {"Card", "Visa Signature"}
TierIncomes == {0, 499999, 500000, 600000, 999999, 1000000, 1200000}

InitTier ==
  \E badge \in SeqsUpTo(TierBadges, MaxBadges) : \E name \in TierNames :
  \E income \in TierIncomes :
    ScoreStart(<<Card(name, "HDFC Bank", badge, NoIncomeReq, None, FALSE,
                      Absent, Absent)>>,
               ScorePrefs(<<"Dining">>, {"cashback"}, None, income))

SpecTier == InitTier /\ [][NextScore]_vars

\* --- one card, every short list of rewards against every pair of
\* preferences and every preferred bank; the category, fee and income rules
\* cannot fire
PreferenceNames ==
  { "cashback", "travel rewards", "low fees", "lounge access",
    "fuel surcharge waiver", "movie benefits", "dining discounts",
    "railway benefits", "insurance coverage", "milestone rewards",
    "welcome benefits", "no annual fee" }

PreferencePairs == { {a, b} : a, b \in PreferenceNames }

RewardItems ==
  { RewardText("Lounge, travel cover"),
    Descriptor("cashback", <<"Dining", "Movie offer">>),
    RewardText("Air Miles, PVR"),
    Descriptor("welcome", <<"IRCTC", "Insurance">>),
    RewardText("Milestone points, fuel, railway, restaurant") }

MaxRewards == 2

FuelFee == AsList(<<RewardText("Fuel 1%")>>)

\* the fee_breakdown of the card with the preferred bank of the user
FeesAndBanks ==
  { <<Absent, None>>, <<Absent, Some("hdfc")>>, <<FuelFee, None>>,
    <<FuelFee, Some("sbi")>> }

InitRewards ==
  \E rewards \in SeqsUpTo(RewardItems, MaxRewards) : \E fb \in FeesAndBanks :
  \E p \in PreferencePairs :
    ScoreStart(<<Card("Card", "HDFC Bank", <<>>, NoIncomeReq, None, FALSE,
                      AsList(rewards), fb[1])>>,
               ScorePrefs(<<"Dining">>, p, fb[2], 0))

SpecRewards == InitRewards /\ [][NextScore]_vars

(***************************************************************************)
(* The loader specification: the content of the file is drawn by InitLoad  *)
(* and LoadCards applies _load_cards to it, as the constructor does.       *)
(***************************************************************************)
RawRecord(name, inst) == [name |-> name, Institution |-> inst]

RawRecords ==
  { RawRecord(name, inst) :
      name \in {None, Some(""), Some("Regalia"), Some("Neo")},
      inst \in {None, Some(""), Some("None"), Some("HDFC Bank")} }

RawFiles == {Unreadable} \cup { RawFile(r) : r \in SeqsUpTo(RawRecords, MaxRaw) }

InitLoad ==
  /\ raw_cards \in RawFiles
  /\ cards = <<>>
  /\ user_prefs = ScorePrefs(<<"Travel">>, {"cashback"}, None, 0)
  /\ session_state = NewSession(<<>>)
  /\ eligible_cards = <<>>
  /\ scored_cards = <<>>
  /\ ranked_cards = <<>>
  /\ prev_ranked = <<>>
  /\ calls = 0
  /\ pc = "start"
  /\ log = <<>>
  /\ Idle

\* line 24: self.cards = self._load_cards(json_path)
LoadCards ==
  /\ pc = "start"
  /\ cards' = load_cards(raw_cards)
  /\ log' = load_log(log, raw_cards)
  /\ pc' = "loaded"
  /\ UNCHANGED <<user_prefs, session_state, eligible_cards, scored_cards,
                 ranked_cards, prev_ranked, calls, raw_cards, result,
                 alternatives, rejected, llm_runs, llm_answer, loop_card,
                 fetched, suggestions>>

NextLoad == LoadCards

SpecLoad == InitLoad /\ [][NextLoad]_vars

(***************************************************************************)
(* The session: recommend (src/main.py 541-575), suggest_alternative       *)
(* (852-937) and the turns of the conversation loop (939-1054).  What an   *)
(* LLM chain answers is an input of the operation that runs it.            *)
(***************************************************************************)
FallbackSize == 20
ShortlistSize == 5

\* l[:n]
Take(l, n) == SubSeq(l, 1, IF Len(l) < n THEN Len(l) ELSE n)

\* the first card of l whose lowercased name contains the lowercased name n
first_match(l, n) ==
  LET hits == { i \in 1..Len(l) : InStr(lower(n), lower(l[i].name)) }
  IN  IF hits = {} THEN None
      ELSE Some(l[CHOOSE i \in hits : \A j \in hits : i <= j])

\* an answer of a chain: it names a card on its marker line, it has no marker
\* line, it asks for a link, or the run raises
Named(n) == [kind |-> "named", name |-> n]
NoMarker == [kind |-> "text", name |-> ""]
FetchLink(url) == [kind |-> "fetch", name |-> url]
Raises == [kind |-> "error", name |-> ""]

\* conversational_recommendation giving up when the chain raises
conversational_recommendation_none_on_error(top_cards, answer) ==
  IF top_cards = <<>> \/ answer.kind = "error" THEN None
  ELSE IF answer.kind = "named" /\ answer.name # ""
          /\ first_match(top_cards, answer.name) # None
  THEN first_match(top_cards, answer.name)
  ELSE Some(top_cards[1])

\* lines 577-651: the card conversational_recommendation returns
conversational_recommendation(top_cards, answer) ==
  IF top_cards = <<>> THEN None
  ELSE IF answer.kind = "named" /\ answer.name # ""
          /\ first_match(top_cards, answer.name) # None
  THEN first_match(top_cards, answer.name)
  ELSE Some(top_cards[1])

\* lines 551-555: the list recommend hands to the scorer
recommend_eligible(cs, prefs, state) ==
  LET eligible == filter_cards_by_eligibility(cs, prefs, state)
  IN  IF eligible = <<>> THEN Take(cs, FallbackSize) ELSE eligible

\* lines 560-564
recommend_ranked(cs, prefs, state) ==
  LET eligible == recommend_eligible(cs, prefs, state)
      ranked == score_cards(eligible, prefs)
  IN  IF ranked = <<>> THEN Take(eligible, ShortlistSize) ELSE ranked

\* lines 569 and 575: what recommend returns
recommend_card(cs, prefs, state, answer) ==
  conversational_recommendation(recommend_ranked(cs, prefs, state), answer)

\* recommend_state keeping the whole ranked list
recommend_state_whole_list(cs, prefs, state, answer) ==
  LET ranked == recommend_ranked(cs, prefs, state)
      recommended_card == recommend_card(cs, prefs, state, answer)
  IN  IF recommended_card = None THEN state
      ELSE [state EXCEPT !.llm_calls_count = @ + 1,
                         !.current_card = recommended_card,
                         !.recommended_cards = ranked]

\* lines 571-573 and 582: the session state recommend leaves
recommend_state(cs, prefs, state, answer) ==
  LET ranked == recommend_ranked(cs, prefs, state)
      recommended_card == recommend_card(cs, prefs, state, answer)
  IN  IF recommended_card = None THEN state
      ELSE [state EXCEPT !.llm_calls_count = @ + 1,
                         !.current_card = recommended_card,
                         !.recommended_cards = Take(ranked, ShortlistSize)]

\* lines 859-870: the candidates, as the cards under 'full_data'
RECURSIVE alternatives_loop(_, _, _)
alternatives_loop(state, i, acc) ==
  IF i > Len(state.recommended_cards) THEN acc
  ELSE LET card == state.recommended_cards[i]
       IN  alternatives_loop(state, i + 1,
             IF /\ Some(card) # state.current_card
                /\ ~InList(card.Institution, state.excluded_institutions)
             THEN Append(acc, card) ELSE acc)

alternatives_of(state) == alternatives_loop(state, 1, <<>>)

\* lines 903-911
select_alternative(alts, answer) ==
  IF answer.kind = "named" /\ answer.name # ""
     /\ first_match(alts, answer.name) # None
  THEN first_match(alts, answer.name)[1]
  ELSE alts[1]

\* after_suggest with the exclusions cleared when no candidate remains
after_suggest_clearing(state, answer) ==
  LET alts == alternatives_of(state)
      counted == [state EXCEPT !.llm_calls_count = @ + 1]
  IN  IF alts = <<>> THEN [counted EXCEPT !.excluded_institutions = <<>>]
      ELSE IF answer.kind = "error"
      THEN [counted EXCEPT !.current_card = Some(alts[1])]
      ELSE LET selected_card == select_alternative(alts, answer)
           IN  [counted EXCEPT
                  !.current_card = Some(selected_card),
                  !.excluded_institutions = Append(@, selected_card.Institution)]

\* lines 854-937: the session state suggest_alternative leaves
after_suggest(state, answer) ==
  LET alts == alternatives_of(state)
      counted == [state EXCEPT !.llm_calls_count = @ + 1]
  IN  IF alts = <<>> THEN counted
      ELSE IF answer.kind = "error"
      THEN [counted EXCEPT !.current_card = Some(alts[1])]
      ELSE LET selected_card == select_alternative(alts, answer)
           IN  [counted EXCEPT
                  !.current_card = Some(selected_card),
                  !.excluded_institutions = Append(@, selected_card.Institution)]

\* lines 874, 926, 935: what suggest_alternative returns
suggest_result(state, answer) ==
  IF alternatives_of(state) = <<>> THEN None
  ELSE after_suggest(state, answer).current_card

\* lines 1048-1054
switch_to_alternative(state, alt_name) ==
  first_match(state.recommended_cards, alt_name)

\* lines 968 and 1027-1033: the session state a turn of the loop leaves
after_turn(state, answer) ==
  LET counted == [state EXCEPT !.llm_calls_count = @ + 1]
  IN  IF answer.kind = "named"
         /\ switch_to_alternative(state, answer.name) # None
      THEN [counted EXCEPT
              !.current_card = switch_to_alternative(state, answer.name)]
      ELSE counted

\* card.get('links', [])
links_of(card) == IF "links" \in DOMAIN card THEN card.links ELSE <<>>

\* lines 1058-1064: valid_url
valid_url(url, card) ==
  \E i \in 1..Len(links_of(card)) : links_of(card)[i].uri = url

\* lines 1035-1037 and 1056-1073: the requests made once the turn is over;
\* card is the handler's argument, ok is whether the request succeeds
after_fetch(done, state, answer, card, ok) ==
  IF answer.kind = "fetch" /\ valid_url(answer.name, card)
  THEN done \cup {[url |-> answer.name, current |-> state.current_card,
                   ok |-> ok]}
  ELSE done

\* a card with a links list
WithLinks(card, uris) ==
  [k \in DOMAIN card \cup {"links"} |->
     IF k = "links" THEN [i \in 1..Len(uris) |-> [uri |-> uris[i]]]
     ELSE card[k]]

\* --- the catalogs and the users of the session
Requires(income) ==
  [salaried |-> Some(income), self_employed |-> None, Any |-> None]

SessionCards ==
  << WithLinks(
       Card("Regalia", "HDFC Bank", <<"Travel", "Premium">>, Requires(300000),
            None, FALSE, AsList(<<RewardText("Lounge access")>>), Absent),
       <<"hdfc.com/regalia">>),
     Card("Millennia", "HDFC Bank", <<"Shopping">>, Requires(300000), None,
          FALSE, AsList(<<RewardText("5% Cashback")>>), Absent),
     WithLinks(
       Card("SimplyCLICK", "SBI Card", <<"Shopping">>, Requires(300000), None,
            FALSE, AsDict(<<Descriptor("cashback", <<"5% online">>)>>), Absent),
       <<"sbi.co.in/click">>),
     Card("Ace", "Axis Bank", <<"Travel">>, Requires(300000), None, FALSE,
          Absent, Absent),
     Card("Coral", "ICICI Bank", <<>>, Requires(300000), None, FALSE,
          Absent, Absent),
     Card("Neo", "Axis Bank", <<>>, NoIncomeReq, None, FALSE, Absent, Absent),
     Card("Unnati", "SBI Card", <<>>, Requires(300000), None, FALSE,
          Absent, Absent) >>

\* one card more than the fallback of line 555 takes, none within reach of
\* an income below 300000
LargeCatalog ==
  [i \in 1..(FallbackSize + 1) |->
     Card("Card " \o CharAt(UpperChars, i),
          IF i % 2 = 0 THEN "HDFC Bank" ELSE "SBI Card", <<>>,
          Requires(300000), None, FALSE, Absent, Absent)]

\* the catalogs that begin with the first or end with the last session card
SessionCatalogs ==
  { SubSeq(SessionCards, 1, b) : b \in 0..Len(SessionCards) }
    \cup { SubSeq(SessionCards, a, Len(SessionCards)) : a \in 1..Len(SessionCards) }
    \cup {LargeCatalog}

SessionPrefs ==
  { [ScorePrefs(<<"Travel">>, p, None, income) EXCEPT !.employment = "salaried"] :
      p \in {{"cashback"}, {"lounge access"}}, income \in {100000, 1200000} }

LLMNames == {"regalia", "Simply", "neo", "Titanium", ""}

ChainAnswers == { Named(n) : n \in LLMNames } \cup {NoMarker, Raises}
LLMUrls == {"hdfc.com/regalia", "sbi.co.in/click", "example.org/offer"}

TurnAnswers == ChainAnswers \cup { FetchLink(u) : u \in LLMUrls }

InitSession ==
  /\ cards \in SessionCatalogs
  /\ user_prefs \in SessionPrefs
  /\ session_state = NewSession(<<>>)
  /\ eligible_cards = <<>>
  /\ scored_cards = <<>>
  /\ ranked_cards = <<>>
  /\ prev_ranked = <<>>
  /\ calls = 0
  /\ pc = "start"
  /\ Loaded(cards)

InSession ==
  pc \in {"recommended", "suggested", "none_left", "switched", "answered"}

\* lines 541-575, and line 1122 of run for the pc
Recommend ==
  /\ pc = "start"
  /\ \E answer \in ChainAnswers :
       /\ session_state' = recommend_state(cards, user_prefs, session_state, answer)
       /\ result' = recommend_card(cards, user_prefs, session_state, answer)
       /\ llm_answer' = IF recommend_ranked(cards, user_prefs, session_state) = <<>>
                        THEN llm_answer ELSE answer
  /\ eligible_cards' = recommend_eligible(cards, user_prefs, session_state)
  /\ scored_cards' = score_and_sort(eligible_cards', user_prefs)
  /\ ranked_cards' = recommend_ranked(cards, user_prefs, session_state)
  /\ llm_runs' = IF ranked_cards' = <<>> THEN llm_runs ELSE llm_runs + 1
  /\ loop_card' = result'
  /\ pc' = IF result' = None THEN "done" ELSE "recommended"
  /\ UNCHANGED <<cards, user_prefs, prev_ranked, calls, raw_cards, log,
                 alternatives, rejected, fetched, suggestions>>

\* lines 852-937
SuggestAlternative ==
  /\ InSession
  /\ session_state.llm_calls_count < MaxLLMCalls
  /\ \E answer \in ChainAnswers :
       /\ session_state' = after_suggest(session_state, answer)
       /\ result' = suggest_result(session_state, answer)
       /\ llm_answer' = IF alternatives_of(session_state) = <<>>
                        THEN llm_answer ELSE answer
  /\ alternatives' = alternatives_of(session_state)
  /\ suggestions' = IF alternatives' = <<>> THEN suggestions
                    ELSE suggestions + 1
  /\ llm_runs' = IF alternatives' = <<>> THEN llm_runs ELSE llm_runs + 1
  /\ rejected' = IF alternatives' = <<>> \/ session_state.current_card = None
                 THEN rejected
                 ELSE rejected \cup {session_state.current_card[1]}
  /\ pc' = IF alternatives' = <<>> THEN "none_left" ELSE "suggested"
  /\ UNCHANGED <<cards, user_prefs, eligible_cards, scored_cards, ranked_cards,
                 prev_ranked, calls, raw_cards, log, loop_card, fetched>>

\* lines 957-964 and 966-1046, with 1056-1073 and 653-676: one turn of the
\* loop; the text of the reply and the content fetched from a link are no
\* part of the state, and the warning of a failed request is below the
\* configured level
ConversationTurn ==
  /\ InSession
  /\ session_state.llm_calls_count < MaxLLMCalls
  /\ \E answer \in TurnAnswers : \E ok \in BOOLEAN :
       /\ session_state' = after_turn(session_state, answer)
       /\ llm_answer' = answer
       /\ fetched' = after_fetch(fetched, session_state, answer, loop_card[1], ok)
       /\ log' = IF answer.kind = "fetch" /\ valid_url(answer.name, loop_card[1])
                    /\ ~ok
                 THEN emit(log, "WARNING", [text |-> "Failed to fetch"])
                 ELSE log
       /\ pc' = IF /\ answer.kind = "named"
                   /\ switch_to_alternative(session_state, answer.name) # None
                THEN "switched" ELSE "answered"
  /\ llm_runs' = llm_runs + 1
  /\ UNCHANGED <<cards, user_prefs, eligible_cards, scored_cards, ranked_cards,
                 prev_ranked, calls, raw_cards, result, alternatives,
                 rejected, loop_card, suggestions>>

\* lines 947-949: the user leaves the loop
Quit ==
  /\ InSession
  /\ pc' = "done"
  /\ UNCHANGED <<cards, user_prefs, session_state, eligible_cards, scored_cards,
                 ranked_cards, prev_ranked, calls>>
  /\ UNCHANGED aux

NextSession == Recommend \/ SuggestAlternative \/ ConversationTurn \/ Quit

SpecSession == InitSession /\ [][NextSession]_vars

(***************************************************************************)
(* The program from its entry point (src/main.py 1128-1130): the           *)
(* constructor loads the catalog, run collects the preferences, recommends *)
(* and enters the conversation.                                            *)
(***************************************************************************)

\* the JSON record of a card: the keys 'name' and 'Institution' are present
record_of(card) ==
  [card EXCEPT !.name = Some(card.name), !.Institution = Some(card.Institution)]

\* the card a kept record is, its name and institution being strings
card_of(record) ==
  [record EXCEPT !.name = record.name[1], !.Institution = record.Institution[1]]

Records(cs) == [i \in 1..Len(cs) |-> record_of(cs[i])]
Cards(records) == [i \in 1..Len(records) |-> card_of(records[i])]

\* a record the loader drops
NamelessRecord == [record_of(SessionCards[1]) EXCEPT !.name = None]

\* the file at "Data for project.json": missing or malformed, an empty
\* list, or the first session cards, with or without a nameless record
RunFiles ==
  { Unreadable, RawFile(<<>>),
    RawFile(Records(SubSeq(SessionCards, 1, MaxCatalog))),
    RawFile(Append(Records(SubSeq(SessionCards, 1, MaxCatalog - 1)),
                   NamelessRecord)) }

\* line 32: self.user_prefs = {}
NoPrefs == ScorePrefs(<<>>, {}, None, 0)

InitRun ==
  /\ raw_cards \in RunFiles
  /\ cards = <<>>
  /\ user_prefs = NoPrefs
  /\ session_state = NewSession(<<>>)
  /\ eligible_cards = <<>>
  /\ scored_cards = <<>>
  /\ ranked_cards = <<>>
  /\ prev_ranked = <<>>
  /\ calls = 0
  /\ pc = "new"
  /\ log = <<>>
  /\ Idle

\* lines 22-39 called from line 1129: the constructor returns whether or
\* not the file could be read
Construct ==
  /\ pc = "new"
  /\ cards' = Cards(load_cards(raw_cards))
  /\ log' = load_log(log, raw_cards)
  /\ session_state' = NewSession(<<>>)
  /\ user_prefs' = NoPrefs
  /\ pc' = "constructed"
  /\ UNCHANGED <<eligible_cards, scored_cards, ranked_cards, prev_ranked,
                 calls, raw_cards, result, alternatives, rejected, llm_runs,
                 llm_answer, loop_card, fetched, suggestions>>

\* lines 1113-1116 and 97-221: run begins with the questions to the user
CollectPreferences ==
  /\ pc = "constructed"
  /\ user_prefs' \in SessionPrefs
  /\ pc' = "start"
  /\ UNCHANGED <<cards, session_state, eligible_cards, scored_cards,
                 ranked_cards, prev_ranked, calls>>
  /\ UNCHANGED aux

NextRun ==
  \/ Construct
  \/ CollectPreferences
  \/ Recommend
  \/ SuggestAlternative
  \/ ConversationTurn
  \/ Quit

SpecRun == InitRun /\ [][NextRun]_vars

(***************************************************************************)
(* The filter and the scorer over card dicts as the JSON file has them: a  *)
(* key may be missing, and a key that is there holds null (None) or a      *)
(* value (Some).  The filter and the scorer read a dict with .get; reading *)
(* through a null they do not expect raises.                               *)
(***************************************************************************)

\* d.get(key, default), for a default that is a value or None
dict_get(d, key, default) == IF key \in DOMAIN d THEN d[key] ELSE default

\* reading a key with d[key] instead of d.get(key, default)
score_raises_subscript(d, prefs) ==
  \/ "badge" \notin DOMAIN d
  \/ d.badge = None

\* lines 270-271 and 303-317: what raises in the loop body of score_cards:
\* iterating over a null badge, joining null details of a joining or annual
\* fee when a fee preference is set
score_raises(d, prefs) ==
  \/ dict_get(d, "badge", Some(<<>>)) = None
  \/ /\ "low fees" \in prefs.preferences \/ "no annual fee" \in prefs.preferences
     /\ LET fee_data == dict_get(d, "fee_breakdown", Some(AsList(<<>>)))
            fees == IF fee_data = None THEN <<>> ELSE fee_data[1].items
        IN  \E i \in 1..Len(fees) :
              /\ fees[i].kind = "dict"
              /\ fees[i].type \in {"joining_fee", "annual_fee"}
              /\ dict_get(fees[i], "details", Some(<<>>)) = None

\* lines 235-244: .get on a null eligibility_income_min raises
filter_raises(d, prefs) ==
  dict_get(d, "eligibility_income_min", Some(<<>>)) = None

\* lines 238-243: the minimums read with income_req.get
read_income(income_req) ==
  [salaried |-> dict_get(income_req, "salaried", None),
   self_employed |-> dict_get(income_req, "self_employed", None),
   Any |-> dict_get(income_req, "Any", None)]

\* lines 309-315: a fee or reward entry as the scorer reads it; a dict
\* without details prints no keyword the rules look for
read_entry(x) ==
  IF x.kind = "dict"
  THEN Descriptor(x.type, dict_get(x, "details", Some(<<>>))[1])
  ELSE x

\* lines 290-301: card.get('rewards', []) and card.get('fee_breakdown', []);
\* null is neither a dict nor a list
read_data(data) ==
  IF data = None THEN Absent
  ELSE [shape |-> data[1].shape,
        items |-> [i \in 1..Len(data[1].items) |-> read_entry(data[1].items[i])]]

\* the card the filter sees: the values its .get calls give (lines 232-254)
read_gates(d) ==
  Card(d.name[1], d.Institution[1], <<>>,
       read_income(dict_get(d, "eligibility_income_min", Some(<<>>))[1]),
       dict_get(d, "minimum_credit_score", None),
       LET flag == dict_get(d, "is_bank_customer_only", None)
       IN  flag # None /\ flag[1],
       Absent, Absent)

\* the card the scorer sees: the values its .get calls give (lines 270,
\* 290-301, 394 and 400)
read_card(d) ==
  Card(d.name[1], d.Institution[1],
       dict_get(d, "badge", Some(<<>>))[1],
       NoIncomeReq, None, FALSE,
       read_data(dict_get(d, "rewards", Some(AsList(<<>>)))),
       read_data(dict_get(d, "fee_breakdown", Some(AsList(<<>>)))))

\* lines 230-259 over dicts
RECURSIVE filter_dicts(_, _, _)
filter_dicts(ds, prefs, state) ==
  IF ds = <<>> THEN <<>>
  ELSE (IF card_appended(read_gates(Head(ds)), prefs, state)
        THEN <<Head(ds)>> ELSE <<>>) \o filter_dicts(Tail(ds), prefs, state)

\* lines 265-409 over dicts
score_dicts(ds, prefs) ==
  sort_by_score([i \in 1..Len(ds) |->
                   [card |-> ds[i], score |-> card_score(read_card(ds[i]), prefs)]])

OptionalKeys ==
  {"badge", "eligibility_income_min", "minimum_credit_score",
   "is_bank_customer_only", "rewards", "fee_breakdown", "interest_rate"}

Missing == [has |-> FALSE, v |-> None]
Holding(v) == [has |-> TRUE, v |-> v]

\* a dict with the keys the choices have
MakeDict(name, inst, choice) ==
  [k \in {"name", "Institution"} \cup {o \in OptionalKeys : choice[o].has} |->
     IF k = "name" THEN Some(name)
     ELSE IF k = "Institution" THEN Some(inst)
     ELSE choice[k].v]

\* a fee dict without details, with null details, with details
FeeDicts ==
  { [kind |-> "dict", type |-> "annual_fee"],
    [kind |-> "dict", type |-> "annual_fee", details |-> None],
    [kind |-> "dict", type |-> "annual_fee", details |-> Some(<<"Nil">>)] }

\* the dict of a premium travel card with every subset of the optional keys
\* missing or null
OptionalDicts ==
  { MakeDict("Regalia Signature", "HDFC Bank",
             [badge |-> b, eligibility_income_min |-> e,
              minimum_credit_score |-> m, is_bank_customer_only |-> c,
              rewards |-> r, fee_breakdown |-> f, interest_rate |-> ir]) :
      b \in {Missing, Holding(None), Holding(Some(<<"Travel", "Premium">>))},
      e \in {Missing, Holding(None)}
              \cup { Holding(Some(x)) : x \in { <<>>,
                                                [salaried |-> Some(2000000)],
                                                [Any |-> Some(2000000)] } },
      m \in {Missing, Holding(None), Holding(Some(800))},
      c \in {Missing, Holding(None), Holding(Some(TRUE))},
      r \in {Missing, Holding(None),
             Holding(Some(AsList(<<RewardText("Lounge access, fuel waiver")>>)))},
      f \in {Missing, Holding(None)}
              \cup { Holding(Some(AsList(<<x>>))) : x \in FeeDicts },
      ir \in {Missing, Holding(Some("3.5% per month"))} }

\* users every rule applies to
OptionalPrefs ==
  { [ScorePrefs(<<"Travel">>,
                {"low fees", "lounge access", "fuel surcharge waiver"},
                bank, income) EXCEPT !.credit_score = Some(750)] :
      bank \in {None, Some("hdfc")}, income \in {1200000, 2500000} }

InitOptional ==
  /\ cards \in { <<d>> : d \in OptionalDicts }
  /\ user_prefs \in OptionalPrefs
  /\ session_state = NewSession(<<>>)
  /\ eligible_cards = <<>>
  /\ scored_cards = <<>>
  /\ ranked_cards = <<>>
  /\ prev_ranked = <<>>
  /\ calls = 0
  /\ pc = "start"
  /\ Loaded(cards)

\* line 551: the filter returns its list or the exception leaves recommend
FilterDicts ==
  /\ pc = "start"
  /\ IF \E i \in 1..Len(cards) : filter_raises(cards[i], user_prefs)
     THEN /\ pc' = "raised"
          /\ UNCHANGED eligible_cards
     ELSE /\ pc' = "filtered"
          /\ eligible_cards' = filter_dicts(cards, user_prefs, session_state)
  /\ UNCHANGED <<cards, user_prefs, session_state, scored_cards, ranked_cards,
                 prev_ranked, calls>>
  /\ UNCHANGED aux

\* line 560: the scorer over the filtered list
ScoreDicts ==
  /\ pc = "filtered"
  /\ IF \E i \in 1..Len(eligible_cards) : score_raises(eligible_cards[i], user_prefs)
     THEN /\ pc' = "raised"
          /\ UNCHANGED <<scored_cards, ranked_cards>>
     ELSE /\ pc' = "scored"
          /\ scored_cards' = score_dicts(eligible_cards, user_prefs)
          /\ ranked_cards' = [i \in 1..Len(scored_cards') |-> scored_cards'[i].card]
  /\ UNCHANGED <<cards, user_prefs, session_state, eligible_cards, prev_ranked,
                 calls>>
  /\ UNCHANGED aux

NextOptional == FilterDicts \/ ScoreDicts

SpecOptional == InitOptional /\ [][NextOptional]_vars

(***************************************************************************)
(* Claims about the scorer.                                                *)
(***************************************************************************)

\* the scores of the ranked list, recomputed card by card
ScoreOf(card) == card_score(card, user_prefs)

IndexPermutations(n) == { p \in [1..n -> 1..n] : \A a, b \in 1..n : a # b => p[a] # p[b] }

\* C7: score_cards returns a permutation of its input ordered by descending
\* score, and cards of equal score keep the relative order of the input.
C7_StableDescending ==
  Scored =>
    /\ Len(ranked_cards) = Len(eligible_cards)
    /\ \E p \in IndexPermutations(Len(eligible_cards)) :
         /\ \A k \in 1..Len(ranked_cards) : ranked_cards[k] = eligible_cards[p[k]]
         /\ \A k \in 1..Len(ranked_cards) :
              scored_cards[k] = [card |-> eligible_cards[p[k]],
                                 score |-> ScoreOf(eligible_cards[p[k]])]
         /\ \A a, b \in 1..Len(ranked_cards) :
              a < b => \/ scored_cards[a].score > scored_cards[b].score
                       \/ /\ scored_cards[a].score = scored_cards[b].score
                          /\ p[a] < p[b]

\* three cards ranked, two different cards tie, and a card moved ahead of an
\* earlier one
C7_Witness ==
  /\ Scored
  /\ Len(ranked_cards) = 3
  /\ ranked_cards # eligible_cards
  /\ \E a, b \in 1..3 :
       /\ a < b
       /\ scored_cards[a].score = scored_cards[b].score
       /\ ranked_cards[a] # ranked_cards[b]

ClaimExact(card, prefs) ==
  { i \in 1..Len(prefs.categories) :
      \E j \in 1..Len(card.badge) : upper(prefs.categories[i]) = upper(card.badge[j]) }

ClaimPartial(card, prefs) ==
  { i \in 1..Len(prefs.categories) :
      /\ i \notin ClaimExact(card, prefs)
      /\ \E j \in 1..Len(card.badge) :
           \/ InStr(upper(prefs.categories[i]), upper(card.badge[j]))
           \/ InStr(upper(card.badge[j]), upper(prefs.categories[i])) }

ClaimCategoryPoints(card, prefs) ==
  15 * Cardinality(ClaimExact(card, prefs))
    + 8 * Cardinality(ClaimPartial(card, prefs))

\* C9: the category contribution is 15 per user category equal to a badge
\* (case-insensitively) plus 8 per user category that is no exact match but a
\* substring of, or contains, a badge; it is never negative; badges
\* [Travel, Fuel] with categories [Travel, Shopping] give 15.
C9_CategoryPoints ==
  Scored =>
    \A k \in 1..Len(scored_cards) :
      LET card == scored_cards[k].card
          score == scored_cards[k].score
      IN  /\ score = ClaimCategoryPoints(card, user_prefs)
          /\ score >= 0
          /\ ( card.badge = <<"Travel", "Fuel">>
               /\ user_prefs.categories = <<"Travel", "Shopping">> ) => score = 15

\* one category matches a badge exactly (in another case) and another one only
\* partially
C9_Witness ==
  /\ Scored
  /\ scored_cards[1].card.badge = <<"Travel Rewards", "SHOPPING">>
  /\ user_prefs.categories = <<"Travel", "Shopping">>
  /\ scored_cards[1].score = 23

\* C10: annual-fee details "Nil", joining-fee details "₹500", a user who wants
\* "no annual fee": the fee rule contributes 15, not 20 and not 10.
C10_AnnualOnlyExample ==
  Scored =>
    \A k \in 1..Len(scored_cards) :
      LET fees == unwrap(scored_cards[k].card.fee_breakdown)
      IN  ( /\ "no annual fee" \in user_prefs.preferences
            /\ \E i \in 1..Len(fees) :
                 fees[i].type = "annual_fee" /\ InList("Nil", fees[i].details)
            /\ \E i \in 1..Len(fees) :
                 fees[i].type = "joining_fee" /\ fees[i].details = <<"₹500">> )
          => scored_cards[k].score = 15

\* the fee points as the claim states them: a fee of the given type has a
\* waiver keyword when one of its detail strings contains the keyword
ClaimWaiver(card, type, keywords) ==
  LET fees == unwrap(card.fee_breakdown)
  IN  \E i \in 1..Len(fees) :
        /\ fees[i].kind = "dict"
        /\ fees[i].type = type
        /\ \E d \in 1..Len(fees[i].details) : \E k \in keywords :
             InStr(upper(k), upper(fees[i].details[d]))

ClaimFeePoints(card, prefs) ==
  LET joining == ClaimWaiver(card, "joining_fee", {"nil", "waived", "0", "free"})
      annual == ClaimWaiver(card, "annual_fee",
                            {"nil", "waived", "0", "free", "lifetime"})
  IN  IF prefs.preferences \cap {"low fees", "no annual fee"} = {} THEN 0
      ELSE IF joining /\ annual THEN 20
      ELSE IF annual THEN 15
      ELSE IF joining THEN 10
      ELSE 0

ClaimPremium(card) ==
  \/ \E j \in 1..Len(card.badge) : upper(card.badge[j]) = "PREMIUM"
  \/ InStr("SIGNATURE", upper(card.name))

ClaimMidTier(card) ==
  \E j \in 1..Len(card.badge) :
    upper(card.badge[j]) \in {"LIFESTYLE", "REWARDS", "TRAVEL"}

\* C12 as stated: the bonus is +10 when the income is at least 1,000,000 and
\* the card is premium (badge "premium" or "signature" in the name); else +5
\* when the income is at least 500,000 and the badges meet {lifestyle,
\* rewards, travel}; otherwise 0.
C12_IncomeTier_AsStated ==
  Scored =>
    \A k \in 1..Len(scored_cards) :
      LET card == scored_cards[k].card
          income == user_prefs.income
      IN  scored_cards[k].score =
            IF income >= 1000000 /\ ClaimPremium(card) THEN 10
            ELSE IF income >= 500000 /\ ClaimMidTier(card) THEN 5
            ELSE 0

\* C12 amended: the bonus is +10 when the income is at least 1,000,000 and
\* the card is premium; it is +5 when the income is at least 500,000 but below
\* 1,000,000 and the badges meet {lifestyle, rewards, travel}; otherwise,
\* also for an income of 1,000,000 or more and a card that is not premium, it
\* is 0.  It is never 15.  An income of 1,200,000 with a Premium badge gives
\* 10 and an income of 600,000 with the badges [Lifestyle] gives 5.
C12_IncomeTier ==
  Scored =>
    \A k \in 1..Len(scored_cards) :
      LET card == scored_cards[k].card
          income == user_prefs.income
          score == scored_cards[k].score
      IN  /\ score = IF income >= 1000000
                     THEN IF ClaimPremium(card) THEN 10 ELSE 0
                     ELSE IF income >= 500000 /\ ClaimMidTier(card) THEN 5
                     ELSE 0
          /\ score # 15
          /\ (income = 1200000 /\ InList("Premium", card.badge)) => score = 10
          /\ (income = 600000 /\ card.badge = <<"Lifestyle">>) => score = 5

\* an income of the first tier and a card of the second tier only: no bonus
C12_Witness ==
  /\ Scored
  /\ user_prefs.income = 1200000
  /\ scored_cards[1].card.badge = <<"Lifestyle">>
  /\ scored_cards[1].card.name = "Card"
  /\ scored_cards[1].score = 0

\* the rule table as the claim states it
ClaimRules ==
  << [pref |-> "lounge access", keywords |-> {"lounge"}, points |-> 18],
     [pref |-> "fuel surcharge waiver", keywords |-> {"fuel"}, points |-> 15],
     [pref |-> "cashback", keywords |-> {"cashback"}, points |-> 18],
     [pref |-> "travel rewards",
      keywords |-> {"travel", "miles", "points", "air"}, points |-> 16],
     [pref |-> "movie benefits", keywords |-> {"movie", "pvr"}, points |-> 12],
     [pref |-> "dining discounts", keywords |-> {"dining", "restaurant"},
      points |-> 12],
     [pref |-> "railway benefits", keywords |-> {"railway", "irctc"},
      points |-> 12],
     [pref |-> "welcome benefits", keywords |-> {"welcome"}, points |-> 8],
     [pref |-> "milestone rewards", keywords |-> {"milestone"}, points |-> 10],
     [pref |-> "insurance coverage", keywords |-> {"insurance", "cover"},
      points |-> 8] >>

\* a keyword occurs in the text of a list of rewards or fees
ClaimTextHas(items, keywords) ==
  \E i \in 1..Len(items) : \E k \in keywords :
    IF items[i].kind = "str" THEN InStr(upper(k), upper(items[i].text))
    ELSE \/ InStr(upper(k), upper(items[i].type))
         \/ \E d \in 1..Len(items[i].details) :
              InStr(upper(k), upper(items[i].details[d]))

ClaimRuleFires(card, prefs, rule) ==
  /\ rule.pref \in prefs.preferences
  /\ \/ ClaimTextHas(unwrap(card.rewards), rule.keywords)
     \/ /\ rule.pref = "fuel surcharge waiver"
        /\ ClaimTextHas(unwrap(card.fee_breakdown), rule.keywords)

RECURSIVE ClaimRulePoints(_, _, _)
ClaimRulePoints(card, prefs, n) ==
  IF n = 0 THEN 0
  ELSE ClaimRulePoints(card, prefs, n - 1)
         + ( IF ClaimRuleFires(card, prefs, ClaimRules[n])
             THEN ClaimRules[n].points ELSE 0 )

ClaimBankPoints(card, prefs) ==
  IF /\ prefs.preferred_bank # None
     /\ prefs.preferred_bank[1] # ""
     /\ InStr(lower(prefs.preferred_bank[1]), lower(card.Institution))
  THEN 25 ELSE 0

\* C13: the score is the sum of the contributions of the rules: each reward
\* rule adds its points exactly when the user selected its preference and one
\* of its keywords occurs in the card's reward text (for fuel: reward or fee
\* text), the preferred-bank rule adds 25 exactly when a preferred bank is set
\* and is a case-insensitive substring of the institution; several rules may
\* fire for one card and none changes what another contributes.
C13_IndependentRules ==
  Scored =>
    \A k \in 1..Len(scored_cards) :
      scored_cards[k].score =
        ClaimRulePoints(scored_cards[k].card, user_prefs, Len(ClaimRules))
          + ClaimBankPoints(scored_cards[k].card, user_prefs)

\* the lounge rule, the travel rule and the preferred-bank rule fire together
C13_Witness ==
  /\ Scored
  /\ user_prefs.preferences = {"lounge access", "travel rewards"}
  /\ user_prefs.preferred_bank = Some("hdfc")
  /\ Len(unwrap(scored_cards[1].card.rewards)) = 2
  /\ scored_cards[1].score = 18 + 16 + 25

(***************************************************************************)
(* Claims about the session.                                               *)
(***************************************************************************)

\* C14: after suggest_alternative has produced an alternative, the
\* institution of the card it replaced (current_card before the call) is in
\* excluded_institutions.
C14_RejectedInstitutionExcluded ==
  [][ pc' = "suggested" =>
        InList(session_state.current_card[1].Institution,
               session_state'.excluded_institutions) ]_vars

\* the ranked list of a run of the filter and the scorer over the whole
\* catalog, with the institution of the rejected card excluded as well
ClaimFreshRanked ==
  LET updated ==
        [session_state EXCEPT
           !.excluded_institutions =
              Append(@, session_state.current_card[1].Institution)]
  IN  score_cards(filter_cards_by_eligibility(cards, user_prefs, updated),
                  user_prefs)

\* C15: the alternative is chosen from the fresh ranked list of the filter
\* and the scorer run over the whole catalog with the updated exclusions:
\* every card of that list is a candidate, also one that was not among the
\* five stored before, and the card offered is one of that list.
C15_FreshPipeline ==
  [][ pc' \in {"suggested", "none_left"} =>
        /\ \A i \in 1..Len(ClaimFreshRanked) :
             InList(ClaimFreshRanked[i], alternatives')
        /\ result' # None => InList(result'[1], ClaimFreshRanked) ]_vars

\* C16: a card that has been rejected is never made the current card again,
\* neither by a later rejection, whatever the LLM answers or however it
\* fails, nor by a SWITCH_TO.
C16_RejectedNeverCurrent ==
  pc \in {"suggested", "switched"} => session_state.current_card[1] \notin rejected

\* C17: when no alternative remains, suggest_alternative returns None
\* without running the LLM and leaves current_card, excluded_institutions
\* and recommended_cards as they were.
C17_NoAlternativeLeft ==
  [][ pc' = "none_left" =>
        /\ result' = None
        /\ llm_runs' = llm_runs
        /\ session_state'.current_card = session_state.current_card
        /\ session_state'.excluded_institutions
             = session_state.excluded_institutions
        /\ session_state'.recommended_cards
             = session_state.recommended_cards ]_vars

\* no alternative remains for a current card, after an institution has been
\* excluded
C17_Witness ==
  /\ pc = "none_left"
  /\ result = None
  /\ session_state.current_card # None
  /\ session_state.excluded_institutions # <<>>
  /\ session_state.recommended_cards # <<>>

\* C18: whenever current_card is assigned (by recommend, by
\* suggest_alternative with an answer or a failure of the LLM, by SWITCH_TO),
\* the card is one of the loaded catalog and its institution is not in
\* excluded_institutions at that moment.
C18_AssignedCardAllowed ==
  [][ pc' \in {"recommended", "suggested", "switched"} =>
        /\ InList(session_state'.current_card[1], cards)
        /\ ~InList(session_state'.current_card[1].Institution,
                   session_state.excluded_institutions) ]_vars

\* the first 20 cards of the catalog, all of them when there are fewer
ClaimFallbackCards ==
  [i \in 1..(IF Len(cards) < 20 THEN Len(cards) ELSE 20) |-> cards[i]]

\* C19: when the filter yields nothing, recommend scores exactly the first 20
\* cards of the catalog (all when there are fewer), in catalog order, and the
\* result or the session state records that the fallback was used: no run
\* without the fallback returns the same card and leaves the same session
\* state; when the filter yields something, recommend scores just that.
C19_FallbackRecorded ==
  pc = "recommended" =>
    LET filtered ==
          filter_cards_by_eligibility(cards, user_prefs, NewSession(<<>>))
    IN  /\ eligible_cards =
             IF filtered = <<>> THEN ClaimFallbackCards ELSE filtered
        /\ filtered = <<>> =>
             ~ \E p \in SessionPrefs : \E a \in ChainAnswers :
                 /\ filter_cards_by_eligibility(cards, p, NewSession(<<>>)) # <<>>
                 /\ recommend_card(cards, p, NewSession(<<>>), a) = result
                 /\ recommend_state(cards, p, NewSession(<<>>), a) = session_state

(***************************************************************************)
(* Claims about the loader.                                                *)
(***************************************************************************)

\* a record the claim keeps: name present and non-empty, institution
\* present, non-empty and not the literal "None"
ClaimValidRecord(r) ==
  /\ r.name \notin {None, Some("")}
  /\ r.Institution \notin {None, Some(""), Some("None")}

\* the dropped count a log record reports, given as such or as the
\* difference of the total and the kept count
ClaimReportedDropped(entry) == entry.msg.total - entry.msg.valid

\* C20: for a readable raw catalog _load_cards returns, in input order,
\* exactly the records with a non-empty name and a non-empty institution
\* other than "None", and the number of kept records plus the reported count
\* of dropped records equals the input size.
C20_LoaderKeepsValid ==
  (pc = "loaded" /\ raw_cards.readable) =>
    /\ cards = SelectSeq(raw_cards.records, ClaimValidRecord)
    /\ \E i \in 1..Len(log) :
         /\ "total" \in DOMAIN log[i].msg
         /\ Len(cards) + ClaimReportedDropped(log[i]) = Len(raw_cards.records)

(***************************************************************************)
(* Further claims about the eligibility filter, checked under SpecFilter.  *)
(***************************************************************************)

\* the minimum the card specifies for the employment type of the user
ClaimEmploymentMinimum(card, prefs) ==
  IF prefs.employment = "salaried" THEN card.eligibility_income_min.salaried
  ELSE card.eligibility_income_min.self_employed

\* C27: a card whose minimum for the user's employment type is 0 passes the
\* income check for every income, whatever its 'Any' minimum is: when it is
\* not excluded and passes the credit and the bank check, it is returned.
C27_ZeroMinimumDecides ==
  Filtered =>
    \A i \in 1..Len(cards) :
      ( /\ ClaimEmploymentMinimum(cards[i], user_prefs) = Some(0)
        /\ ~is_excluded(cards[i], session_state)
        /\ credit_eligible(cards[i], user_prefs)
        /\ bank_eligible(cards[i], user_prefs) )
      => InList(cards[i], eligible_cards)

(***************************************************************************)
(* C21                                                                     *)
(***************************************************************************)
\* C21: when the catalog file cannot be read or parsed the load is fatal:
\* the program gets no further than the constructor, so no preferences are
\* collected and no filtering, scoring or recommendation step runs.
C21_LoadFailureIsFatal ==
  ~raw_cards.readable =>
    /\ pc \in {"new", "constructed"}
    /\ user_prefs = NoPrefs
    /\ llm_runs = 0

(***************************************************************************)
(* C22                                                                     *)
(***************************************************************************)
\* the answer of the chain gives no card of the list l: the run raised, the
\* response has no marker line (the empty response too), the name on the
\* marker line is empty, or no card of l has a name that contains it
ClaimNoCardGiven(answer, l) ==
  \/ answer.kind \in {"error", "text"}
  \/ /\ answer.kind = "named"
     /\ \/ answer.name = ""
        \/ \A i \in 1..Len(l) : ~InStr(lower(answer.name), lower(l[i].name))

ClaimOwnLink(url, card) ==
  /\ "links" \in DOMAIN card
  /\ \E i \in DOMAIN card.links : card.links[i].uri = url

\* C23: every url fetched while answering a follow-up is a uri in the links
\* of the card that was the session's current card when it was fetched,
\* also after a SWITCH_TO has changed the current card (stated of the
\* sessions in which nothing but a SWITCH_TO has changed it).
C23_FetchedFromCurrentCard ==
  suggestions = 0 =>
    \A f \in fetched :
      /\ f.current # None
      /\ ClaimOwnLink(f.url, f.current[1])

(***************************************************************************)
(* C24                                                                     *)
(***************************************************************************)
\* what the filter and the scorer give in a session state
ClaimPipeline(cs, prefs, state) ==
  LET eligible == filter_cards_by_eligibility(cs, prefs, state)
  IN  <<eligible, score_cards(eligible, prefs)>>

\* C24: an operation in which the LLM call raised leaves the catalog and
\* the user preferences as they were, and after it the filter and the
\* scorer give what they give after the same operation with an LLM call
\* that succeeded and chose the same card (stated of suggest_alternative).
C24_FailureLeavesPipeline ==
  [][ (pc' = "suggested" /\ llm_answer'.kind = "error") =>
        /\ cards' = cards
        /\ user_prefs' = user_prefs
        /\ \A a \in ChainAnswers :
             (a.kind # "error" /\ suggest_result(session_state, a) = result')
               => ClaimPipeline(cards', user_prefs', session_state')
                    = ClaimPipeline(cards, user_prefs,
                                    after_suggest(session_state, a)) ]_vars

(***************************************************************************)
(* C25                                                                     *)
(***************************************************************************)
ClaimMin(a, b) == IF a < b THEN a ELSE b

\* C25: once recommend has returned a card, and for the rest of the
\* session, recommended_cards is the first min(5, n) cards of the ranked
\* list of that run, in rank order, so it never holds more than five cards.
C25_ShortlistIsTopFive ==
  InSession =>
    LET shortlist == session_state.recommended_cards
    IN  /\ Len(shortlist) = ClaimMin(5, Len(ranked_cards))
        /\ Len(shortlist) <= 5
        /\ \A i \in 1..Len(shortlist) : shortlist[i] = ranked_cards[i]

C25_Witness ==
  /\ pc = "recommended"
  /\ Len(ranked_cards) > 5
  /\ Len(session_state.recommended_cards) = 5
  /\ result # None

(***************************************************************************)
(* C28                                                                     *)
(***************************************************************************)
\* C28: in a session of rejections only (no conversation turn in between),
\* suggest_alternative returns a card at most len(recommended_cards) times
\* before it returns None, whatever the LLM answers and also when its calls
\* fail.
C28_RejectionsRunOut ==
  llm_runs = suggestions + 1 =>
    suggestions <= Len(session_state.recommended_cards)

(***************************************************************************)
(* C29                                                                     *)
(***************************************************************************)
\* l has no element twice
ClaimNoDuplicates(l) == \A i, j \in 1..Len(l) : l[i] = l[j] => i = j

\* every institution of l is in m
ClaimKept(l, m) == \A i \in 1..Len(l) : \E j \in 1..Len(m) : m[j] = l[i]

\* C29: no step removes an institution from excluded_institutions, the
\* list never holds an institution twice, and every suggest_alternative
\* that returns an alternative adds exactly one institution to it.
C29_ExcludedOnlyGrows ==
  [][ /\ ClaimKept(session_state.excluded_institutions,
                   session_state'.excluded_institutions)
      /\ ClaimNoDuplicates(session_state'.excluded_institutions)
      /\ pc' = "suggested" =>
           Len(session_state'.excluded_institutions)
             = Len(session_state.excluded_institutions) + 1 ]_vars

(***************************************************************************)
(* C26                                                                     *)
(***************************************************************************)
ClaimAbsent(d, key) == key \notin DOMAIN d

\* no key of the dict, and no details key of its fee dicts, holds null
ClaimNoNull(d) ==
  /\ \A k \in DOMAIN d : d[k] # None
  /\ ~ClaimAbsent(d, "fee_breakdown") =>
       \A i \in 1..Len(d.fee_breakdown[1].items) :
         LET fee == d.fee_breakdown[1].items[i]
         IN  ~ClaimAbsent(fee, "details") => fee.details # None

\* no fee dict of the card has details
ClaimNoFeeDetails(d) ==
  \/ ClaimAbsent(d, "fee_breakdown")
  \/ \A i \in 1..Len(d.fee_breakdown[1].items) :
       ClaimAbsent(d.fee_breakdown[1].items[i], "details")

\* the points of a card: a rule whose field is absent gives 0, and the
\* income rule without badges is left with the card's name
ClaimOptionalPoints(d, prefs) ==
  LET card == read_card(d)
  IN    (IF ClaimAbsent(d, "badge") THEN 0 ELSE category_score(card, prefs))
      + (IF ClaimAbsent(d, "badge")
         THEN IF prefs.income >= 1000000 /\ InStr("signature", lower(d.name[1]))
              THEN 10 ELSE 0
         ELSE income_bonus(card, prefs))
      + (IF ClaimNoFeeDetails(d) THEN 0 ELSE fee_score(card, prefs))
      + (IF ClaimAbsent(d, "rewards") THEN 0 ELSE rewards_score(card, prefs))
      + (IF ClaimAbsent(d, "rewards") /\ ClaimAbsent(d, "fee_breakdown")
         THEN 0 ELSE fuel_score(card, prefs))
      + bank_bonus(card, prefs)

====
